---- MODULE Spec2Model ----
(***************************************************************************)
(* Geo Master Pro (src/app.py): the geodesic area-of-interest generator,   *)
(* the OpenTopography fetch client and the Streamlit script that ties      *)
(* them to the session state.                                              *)
(*                                                                         *)
(* Numbers.  A coordinate is an integer count of grid steps, DegUnits      *)
(* steps to the degree; the grid is one decimal finer than the five        *)
(* decimals fetch_opentopo_dem rounds to.  It stands for the grid of the   *)
(* IEEE doubles the program computes with (about 1e-14 degree at these     *)
(* magnitudes): a displacement of less than one step is absorbed by the    *)
(* addition, as lon1 + lon12 is in the library.  A distance is an integer  *)
(* count of centimetres.  Every product stays below 2^31.                  *)
(***************************************************************************)
EXTENDS Integers, Sequences, FiniteSets, TLC

VARIABLES
    lat, lon, addr,      \* st.session_state['lat'], ['lon'], ['addr']
    dem_data,            \* st.session_state['dem_data']
    api_key,             \* the "main_key" text input
    shape, w, h, r,      \* the widget values of the range expander
    sidebar,             \* the four Min/Max text inputs of the sidebar
    geom, desc, bounds,  \* geom, desc, bounds of the main page
    roiFile, demFile,    \* the file names of the two download buttons
    gscloud,             \* the coordinates of the GSCloud text block
    event,               \* what the last script run did
    pc                   \* "app", or the position of a direct call

vars == <<lat, lon, addr, dem_data, api_key, shape, w, h, r, sidebar, geom,
          desc, bounds, roiFile, demFile, gscloud, event, pc>>

----------------------------------------------------------------------------
(* Units and program constants *)

Decimals == 5
DegUnits == 10 ^ (Decimals + 1)
RoundStep == DegUnits \div (10 ^ Decimals)
CmPerKm == 100 * 1000
UnitsPerKm == 8983

\* the two options of the shape selectbox (their ASCII parts)
Rectangle == "(Rectangle)"
Circle == "(Circle)"

DefaultLat == 34500000
DefaultLon == 110100000
DefaultAddr == "Hua Shan Region"

WMin == 10000
WMax == 50000000
WDefault == 2000000
RMin == 10000
RMax == 20000000
RDefault == 1000000

BearingStart == 0
BearingStop == 361
BearingStep == 5

HttpOk == 200

----------------------------------------------------------------------------
(* Arithmetic *)

Abs(x) == IF x < 0 THEN -x ELSE x

\* floor(a * b / c) for a, b >= 0 and c > 0, without forming a * b
MulDiv(a, b, c) == (a \div c) * b + ((a % c) * b) \div c

\* 1000 * sin(deg degrees), deg a whole number of degrees taken modulo 360
\* (the library normalises the azimuth), by Bhaskara's rational approximation
SinMilli(deg) ==
    LET t == deg % 360
        u == IF t >= 180 THEN t - 180 ELSE t
        p == u * (180 - u)
        m == (4000 * p) \div (40500 - p)
    IN  IF t >= 180 THEN -m ELSE m

CosMilli(deg) == SinMilli(deg + 90)

\* 1000 * cos(latitude), the latitude taken to a quarter of a degree;
\* positive for |latitude| <= 89.75 degrees
CosLatMilli(la) ==
    LET q == (90 * DegUnits - Abs(la)) \div (DegUnits \div 4)
        p == q * (720 - q)
    IN  (4000 * p) \div (648000 - p)

\* longitudes beyond +/-180 degrees are brought back into [-180, 180)
NormLon(x) ==
    IF Abs(x) > 180 * DegUnits
    THEN ((x + 180 * DegUnits) % (360 * DegUnits)) - 180 * DegUnits
    ELSE x

\* a ground distance in centimetres as grid steps of latitude (truncated:
\* less than one step is no step)
ToUnits(cm) == MulDiv(cm, UnitsPerKm, CmPerKm)

\* the magnitude of the component of d along a direction of cosine milli/1000
Along(d, milli) == MulDiv(d, Abs(milli), 1000)

Signed(milli, x) == IF milli < 0 THEN -x ELSE x

\* the change of latitude d along the bearing
DeltaLat(bearing, d) ==
    Signed(CosMilli(bearing), ToUnits(Along(d, CosMilli(bearing))))

\* the change of longitude d along the bearing: the east component,
\* widened by 1 / cos(latitude)
DeltaLon(la, bearing, d) ==
    Signed(SinMilli(bearing),
           MulDiv(ToUnits(Along(d, SinMilli(bearing))), 1000, CosLatMilli(la)))

\* a latitude carried over a pole comes down the other side
Reflect(raw) ==
    IF raw > 90 * DegUnits THEN 180 * DegUnits - raw
    ELSE IF raw < -90 * DegUnits THEN -180 * DegUnits - raw
    ELSE raw

\* ... on the opposite meridian
OverPole(raw) == IF Abs(raw) > 90 * DegUnits THEN 180 * DegUnits ELSE 0

\* geodist(kilometers=d).destination((la, lo), bearing): the point d along
\* the bearing from (la, lo), for |la| < 90 degrees
Destination(la, lo, bearing, d) ==
    [latitude |-> Reflect(la + DeltaLat(bearing, d)),
     longitude |-> NormLon(lo + DeltaLon(la, bearing, d)
                              + OverPole(la + DeltaLat(bearing, d)))]

----------------------------------------------------------------------------
(* Formatting and rounding *)

\* round(x, 5): to the nearest multiple of RoundStep, ties to the even one
Round5(x) ==
    LET m == x % RoundStep
        lo == x - m
        hi == lo + RoundStep
    IN  IF 2 * m < RoundStep THEN lo
        ELSE IF 2 * m > RoundStep THEN hi
        ELSE IF (lo \div RoundStep) % 2 = 0 THEN lo ELSE hi

\* n written with exactly k digits, zero-padded on the left
RECURSIVE Digits(_, _)
Digits(n, k) == IF k = 0 THEN "" ELSE Digits(n \div 10, k - 1) \o ToString(n % 10)

\* f"{x:.5f}": the value rounded to five decimals, as a decimal string
Fmt5(x) ==
    LET v == Round5(x) \div RoundStep
        a == Abs(v)
        one == 10 ^ Decimals
    IN  (IF v < 0 THEN "-" ELSE "") \o ToString(a \div one) \o "."
            \o Digits(a % one, Decimals)

\* the fraction digits of a float's str(): trailing zeros dropped, one kept
RECURSIVE Frac(_, _)
Frac(n, k) ==
    IF k = 1 THEN ToString(n)
    ELSE IF n % 10 = 0 THEN Frac(n \div 10, k - 1)
    ELSE Digits(n, k)

\* str() of a float number of kilometres: "20.0", "0.1", and the exponent
\* form below 1e-4 ("2e-05")
FormatKm(d) ==
    IF 0 < d /\ d < 10 THEN ToString(d) \o "e-05"
    ELSE ToString(d \div CmPerKm) \o "." \o Frac(d % CmPerKm, 5)

----------------------------------------------------------------------------
(* Geometry *)

Min2(a, b) == IF a < b THEN a ELSE b

\* the coordinates of axis k (1: x, 2: y) over the ring's vertices
Coords(ring, k) == {ring[i][k] : i \in 1..Len(ring)}

MinOf(S) == CHOOSE x \in S : \A y \in S : x <= y
MaxOf(S) == CHOOSE x \in S : \A y \in S : x >= y

\* shapely's .bounds: (minx, miny, maxx, maxy) over the ring's vertices
Bounds(ring) ==
    <<MinOf(Coords(ring, 1)), MinOf(Coords(ring, 2)),
      MaxOf(Coords(ring, 1)), MaxOf(Coords(ring, 2))>>

\* shapely's box(minx, miny, maxx, maxy): the four corners as given,
\* counter-clockwise from (maxx, miny), the ring closed
Box(minx, miny, maxx, maxy) ==
    <<<<maxx, miny>>, <<maxx, maxy>>, <<minx, maxy>>, <<minx, miny>>,
      <<maxx, miny>>>>

\* shapely's Polygon(points): the ring, closed when the points leave it open
Polygon(points) ==
    IF points[1] = points[Len(points)] THEN points
    ELSE Append(points, points[1])

\* range(start, stop, step) as a sequence
Range(start, stop, step) ==
    [i \in 1..((stop - start + step - 1) \div step) |-> start + (i - 1) * step]

\* (mutant) a point every 10 degrees
generate_geodesic_circle_step10(la, lo, radius_km) ==
    LET bearings == Range(BearingStart, BearingStop, 2 * BearingStep)
        points == [i \in 1..Len(bearings) |->
                     LET dest == Destination(la, lo, bearings[i], radius_km)
                     IN  <<dest.longitude, dest.latitude>>]
    IN  Polygon(SubSeq(points, 1, Len(bearings)))

\* the loop over the bearings: one destination appended per bearing
generate_geodesic_circle(la, lo, radius_km) ==
    LET bearings == Range(BearingStart, BearingStop, BearingStep)
        points == [i \in 1..Len(bearings) |->
                     LET dest == Destination(la, lo, bearings[i], radius_km)
                     IN  <<dest.longitude, dest.latitude>>]
    IN  Polygon(SubSeq(points, 1, Len(bearings)))

\* (mutant) the rectangle's label names the height first
generate_geometry_hxw(la, lo, sh, width_km, height_km, radius_km) ==
    IF sh = Rectangle
    THEN LET north == Destination(la, lo, 0, height_km \div 2).latitude
             south == Destination(la, lo, 180, height_km \div 2).latitude
             east == Destination(la, lo, 90, width_km \div 2).longitude
             west == Destination(la, lo, 270, width_km \div 2).longitude
         IN  [geom |-> Box(west, south, east, north),
              desc |-> FormatKm(height_km) \o "x" \o FormatKm(width_km) \o "km"]
    ELSE [geom |-> generate_geodesic_circle(la, lo, radius_km),
          desc |-> "R" \o FormatKm(radius_km) \o "km"]

generate_geometry(la, lo, sh, width_km, height_km, radius_km) ==
    IF sh = Rectangle
    THEN LET north == Destination(la, lo, 0, height_km \div 2).latitude
             south == Destination(la, lo, 180, height_km \div 2).latitude
             east == Destination(la, lo, 90, width_km \div 2).longitude
             west == Destination(la, lo, 270, width_km \div 2).longitude
         IN  [geom |-> Box(west, south, east, north),
              desc |-> FormatKm(width_km) \o "x" \o FormatKm(height_km) \o "km"]
    ELSE [geom |-> generate_geodesic_circle(la, lo, radius_km),
          desc |-> "R" \o FormatKm(radius_km) \o "km"]

----------------------------------------------------------------------------
(* The collaborators: the geocoder and the OpenTopography server *)

None == <<>>
Some(x) == <<x>>

NumPlaces == 2

\* locations the geocoder may answer with
PlaceList ==
    <<[latitude |-> -16850000, longitude |-> 179950000, address |-> "Taveuni, Fiji"],
      [latitude |-> 34487100, longitude |-> 110084700, address |-> "Hua Shan"],
      [latitude |-> 70000000, longitude |-> 23000000, address |-> "Alta, Norge"],
      [latitude |-> 89000000, longitude |-> 45000000, address |-> "Arctic Ocean"],
      [latitude |-> 27988100, longitude |-> 86925000, address |-> "Everest"]>>

Places == {PlaceList[i] : i \in 1..Min2(NumPlaces, Len(PlaceList))}

\* what geolocator.geocode does: raise, find nothing, or return a location
GeocodeOutcomes ==
    {[raises |-> TRUE, location |-> None], [raises |-> FALSE, location |-> None]}
        \cup {[raises |-> FALSE, location |-> Some(p)] : p \in Places}

get_location(geo) ==
    IF geo.raises THEN None
    ELSE IF geo.location # None
         THEN <<geo.location[1].latitude, geo.location[1].longitude,
                geo.location[1].address>>
         ELSE None

\* what requests.get and the reading of the response do
NetOutcomes ==
    {[raises |-> TRUE, status |-> 0, html |-> FALSE, readRaises |-> FALSE, len |-> 0],
     [raises |-> FALSE, status |-> 401, html |-> FALSE, readRaises |-> FALSE, len |-> 0],
     [raises |-> FALSE, status |-> HttpOk, html |-> TRUE, readRaises |-> FALSE, len |-> 1],
     [raises |-> FALSE, status |-> HttpOk, html |-> FALSE, readRaises |-> TRUE, len |-> 0],
     [raises |-> FALSE, status |-> HttpOk, html |-> FALSE, readRaises |-> FALSE, len |-> 0],
     [raises |-> FALSE, status |-> HttpOk, html |-> FALSE, readRaises |-> FALSE, len |-> 1]}

NoNet == [raises |-> FALSE, status |-> 0, html |-> FALSE, readRaises |-> FALSE, len |-> 0]

\* the bytes of a response body: the server's answer to the request, len
\* bytes long; an empty body is the same b"" whatever was asked
Content(params, len) ==
    [len |-> len, of |-> IF len = 0 THEN None ELSE Some(params)]

\* the (ok, d) the function returns, with the request it sent
fetch_opentopo_dem(bnds, key, net) ==
    LET minx == Round5(bnds[1])
        miny == Round5(bnds[2])
        maxx == Round5(bnds[3])
        maxy == Round5(bnds[4])
        params == [demType |-> "SRTMGL1", south |-> miny, north |-> maxy,
                   west |-> minx, east |-> maxx, outputFormat |-> "GTiff",
                   API_Key |-> key]
        raised == [ok |-> FALSE, d |-> "exception", sent |-> Some(params)]
    IN  IF net.raises THEN raised
        ELSE IF net.status = HttpOk
        THEN IF net.html
             THEN [ok |-> FALSE, d |-> "API Error", sent |-> Some(params)]
             ELSE IF net.readRaises THEN raised
             ELSE [ok |-> TRUE, d |-> Some(Content(params, net.len)),
                   sent |-> Some(params)]
        ELSE [ok |-> FALSE, d |-> "HTTP Error", sent |-> Some(params)]

\* "if st.session_state['dem_data']:": None and empty bytes are false
Truthy(dem) == dem # None /\ dem[1].len > 0

----------------------------------------------------------------------------
(* The script: one run renders the whole page *)

\* (mutant) the sidebar's box from the shape parameters: the center plus and
\* minus the half dimensions (the radius) at 111 km to the degree
SidebarBounds_flat(la, lo, sh, wd, ht, rad) ==
    LET dx == IF sh = Rectangle THEN ToUnits(wd \div 2) ELSE ToUnits(rad)
        dy == IF sh = Rectangle THEN ToUnits(ht \div 2) ELSE ToUnits(rad)
    IN  <<lo - dx, la - dy, lo + dx, la + dy>>

\* b = temp_geom.bounds of the sidebar (the assignment of line 142 takes its
\* else branch, generate_geodesic_circle being defined, and computes nothing)
SidebarBounds(la, lo, sh, wd, ht, rad) ==
    Bounds(generate_geometry(la, lo, sh, wd, ht, rad).geom)

\* the fields in the order the page shows them: min lon, max lon, min lat, max lat
Shown(b) == <<Fmt5(b[1]), Fmt5(b[3]), Fmt5(b[2]), Fmt5(b[4])>>

RoiName(label) == "ROI_" \o label \o ".geojson"
DemName(label) == "DEM_" \o label \o ".tif"

\* geom, desc = generate_geometry(...) of the main page
MainGeometry(la, lo, sh, wd, ht, rad) == generate_geometry(la, lo, sh, wd, ht, rad)

\* bounds = geom.bounds of the main page
MainBounds(g) == Bounds(g.geom)

\* the page drawn from the main geometry m, its bounds mb, the sidebar's
\* bounds sb and the session's raster
Page(m, mb, sb, dem) ==
    /\ sidebar' = Shown(sb)
    /\ geom' = m.geom
    /\ desc' = m.desc
    /\ bounds' = mb
    /\ roiFile' = RoiName(m.desc)
    /\ demFile' = IF Truthy(dem) THEN Some(DemName(m.desc)) ELSE None
    /\ gscloud' = Shown(mb)

\* the page after a run with the given session values and widget values
\* (each value is computed once, as one assignment of the script)
Render(la, lo, sh, wd, ht, rad, dem) ==
    \E sb \in {SidebarBounds(la, lo, sh, wd, ht, rad)} :
    \E m \in {MainGeometry(la, lo, sh, wd, ht, rad)} :
    \E mb \in {MainBounds(m)} :
        Page(m, mb, sb, dem)

\* what the geocoder did, for the record of a search
GeoKind(geo) ==
    IF geo.raises THEN "raised" ELSE IF geo.location = None THEN "none" ELSE "found"

NoEvent == [kind |-> "start", geo |-> "", res |-> None, net |-> NoNet,
            ok |-> FALSE, d |-> "", sent |-> None]

\* (mutant) the address is left as it was
SessionAfterSearch_addr(res, la, lo, ad) ==
    IF res # None THEN <<res[1], res[2], ad>> ELSE <<la, lo, ad>>

\* the session center after the search handler
SessionAfterSearch(res, la, lo, ad) == IF res # None THEN res ELSE <<la, lo, ad>>

\* (mutant) a failed download clears the raster
DemAfterDownload_clear(ret, dem) == IF ret.ok THEN ret.d ELSE None

\* dem_data after the download handler
DemAfterDownload(ret, dem) == IF ret.ok THEN ret.d ELSE dem

Init ==
    /\ lat = DefaultLat /\ lon = DefaultLon /\ addr = DefaultAddr
    /\ dem_data = None
    /\ api_key = ""
    /\ shape = Rectangle /\ w = WDefault /\ h = WDefault /\ r = 0
    /\ \E sb \in {SidebarBounds(DefaultLat, DefaultLon, Rectangle, WDefault, WDefault, 0)} :
       \E m \in {MainGeometry(DefaultLat, DefaultLon, Rectangle, WDefault, WDefault, 0)} :
       \E mb \in {MainBounds(m)} :
           /\ sidebar = Shown(sb)
           /\ geom = m.geom /\ desc = m.desc /\ bounds = mb
           /\ roiFile = RoiName(m.desc)
           /\ gscloud = Shown(mb)
    /\ demFile = None
    /\ event = NoEvent
    /\ pc = "app"

\* the search button: on a result the session is updated and st.rerun()
\* runs the script again, which renders the page for the new center; with
\* no result the same run goes on and renders the page for the old one
SearchClick(geo) ==
    /\ pc = "app"
    /\ \E res \in {get_location(geo)} :
       \E c \in {SessionAfterSearch(res, lat, lon, addr)} :
           /\ lat' = c[1] /\ lon' = c[2] /\ addr' = c[3]
           /\ event' = [NoEvent EXCEPT !.kind = "search", !.geo = GeoKind(geo),
                                        !.res = res]
           /\ Render(c[1], c[2], shape, w, h, r, dem_data)
    /\ UNCHANGED <<dem_data, api_key, shape, w, h, r, pc>>

\* values of the number inputs, within the ranges the widgets allow
WidthChoices == {WMin, WDefault}
HeightChoices == {WDefault, WMax}
RadiusChoices == {RDefault, RMax}

\* the selectbox: the number inputs of the other shape appear with their
\* defaults, and the dimensions of the shape left are set to 0
SelectShape(sh) ==
    /\ pc = "app"
    /\ sh # shape
    /\ shape' = sh
    /\ IF sh = Rectangle
       THEN w' = WDefault /\ h' = WDefault /\ r' = 0
       ELSE r' = RDefault /\ w' = 0 /\ h' = 0
    /\ event' = [NoEvent EXCEPT !.kind = "widget"]
    /\ Render(lat, lon, shape', w', h', r', dem_data)
    /\ UNCHANGED <<lat, lon, addr, dem_data, api_key, pc>>

SetWidth(v) ==
    /\ pc = "app" /\ shape = Rectangle /\ v # w
    /\ w' = v
    /\ event' = [NoEvent EXCEPT !.kind = "widget"]
    /\ Render(lat, lon, shape, v, h, r, dem_data)
    /\ UNCHANGED <<lat, lon, addr, dem_data, api_key, shape, h, r, pc>>

SetHeight(v) ==
    /\ pc = "app" /\ shape = Rectangle /\ v # h
    /\ h' = v
    /\ event' = [NoEvent EXCEPT !.kind = "widget"]
    /\ Render(lat, lon, shape, w, v, r, dem_data)
    /\ UNCHANGED <<lat, lon, addr, dem_data, api_key, shape, w, r, pc>>

SetRadius(v) ==
    /\ pc = "app" /\ shape = Circle /\ v # r
    /\ r' = v
    /\ event' = [NoEvent EXCEPT !.kind = "widget"]
    /\ Render(lat, lon, shape, w, h, v, dem_data)
    /\ UNCHANGED <<lat, lon, addr, dem_data, api_key, shape, w, h, pc>>

ApiKeys == {"", "demo-key"}

SetApiKey(k) ==
    /\ pc = "app" /\ k # api_key
    /\ api_key' = k
    /\ event' = [NoEvent EXCEPT !.kind = "widget"]
    /\ Render(lat, lon, shape, w, h, r, dem_data)
    /\ UNCHANGED <<lat, lon, addr, dem_data, shape, w, h, r, pc>>

\* the download button with an empty key: an error, no request
DownloadNoKey ==
    /\ pc = "app" /\ api_key = ""
    /\ event' = [NoEvent EXCEPT !.kind = "download"]
    /\ Render(lat, lon, shape, w, h, r, dem_data)
    /\ UNCHANGED <<lat, lon, addr, dem_data, api_key, shape, w, h, r, pc>>

\* the download button with a key: the fetch for this run's bounds
DownloadClick(net) ==
    /\ pc = "app" /\ api_key # ""
    /\ \E sb \in {SidebarBounds(lat, lon, shape, w, h, r)} :
       \E m \in {MainGeometry(lat, lon, shape, w, h, r)} :
       \E mb \in {MainBounds(m)} :
       \E ret \in {fetch_opentopo_dem(mb, api_key, net)} :
       \E dem \in {DemAfterDownload(ret, dem_data)} :
           /\ dem_data' = dem
           /\ event' = [NoEvent EXCEPT !.kind = "download", !.net = net,
                                        !.ok = ret.ok,
                                        !.d = IF ret.ok THEN "bytes" ELSE ret.d,
                                        !.sent = ret.sent]
           /\ Page(m, mb, sb, dem)
    /\ UNCHANGED <<lat, lon, addr, api_key, shape, w, h, r, pc>>

Next ==
    \/ \E geo \in GeocodeOutcomes : SearchClick(geo)
    \/ \E sh \in {Rectangle, Circle} : SelectShape(sh)
    \/ \E v \in WidthChoices : SetWidth(v)
    \/ \E v \in HeightChoices : SetHeight(v)
    \/ \E v \in RadiusChoices : SetRadius(v)
    \/ \E k \in ApiKeys : SetApiKey(k)
    \/ DownloadNoKey
    \/ \E net \in NetOutcomes : DownloadClick(net)

Spec == Init /\ [][Next]_vars

----------------------------------------------------------------------------
(* The functions called directly, over their whole domain *)

\* centers: every place and the default
CallCenters ==
    {<<PlaceList[i].latitude, PlaceList[i].longitude>> : i \in 1..Len(PlaceList)}
        \cup {<<DefaultLat, DefaultLon>>}

\* dimensions: zero, below one grid step, one metre, and widget values
CallDims == {0, 2, 100, WMin, RDefault, WDefault}

InitCall ==
    /\ pc = "call"
    /\ \E c \in CallCenters : lat = c[1] /\ lon = c[2]
    /\ addr = ""
    /\ \/ shape = Rectangle /\ w \in CallDims /\ h \in CallDims /\ r \in {0, RDefault}
       \/ shape = Circle /\ r \in CallDims /\ w \in {0, WDefault} /\ h = w
    /\ dem_data = None /\ api_key = "demo-key"
    /\ sidebar = <<>> /\ geom = <<>> /\ desc = "" /\ bounds = <<>>
    /\ roiFile = "" /\ demFile = None /\ gscloud = <<>>
    /\ event = NoEvent

\* geom, desc = generate_geometry(...); bounds = geom.bounds
GenerateCall ==
    /\ pc = "call"
    /\ \E g \in {generate_geometry(lat, lon, shape, w, h, r)} :
       \E b \in {Bounds(g.geom)} :
           geom' = g.geom /\ desc' = g.desc /\ bounds' = b
    /\ pc' = "generated"
    /\ UNCHANGED <<lat, lon, addr, dem_data, api_key, shape, w, h, r, sidebar,
                   roiFile, demFile, gscloud, event>>

\* ok, d = fetch_opentopo_dem(bounds, api_key)
FetchCall(net) ==
    /\ pc = "generated"
    /\ \E ret \in {fetch_opentopo_dem(bounds, api_key, net)} :
           event' = [NoEvent EXCEPT !.kind = "download", !.net = net,
                                    !.ok = ret.ok,
                                    !.d = IF ret.ok THEN "bytes" ELSE ret.d,
                                    !.sent = ret.sent]
    /\ pc' = "fetched"
    /\ UNCHANGED <<lat, lon, addr, dem_data, api_key, shape, w, h, r, sidebar,
                   geom, desc, bounds, roiFile, demFile, gscloud>>

NextCall ==
    \/ GenerateCall
    \/ \E net \in NetOutcomes : FetchCall(net)

SpecGeom == InitCall /\ [][NextCall]_vars

----------------------------------------------------------------------------
(* Properties *)

Generated == pc \in {"generated", "fetched"}

StrictBox(b) == b[1] < b[3] /\ b[2] < b[4]

\* C1: a rectangle generated from positive width and height (every call
\* center has |latitude| < 90 degrees) has a bounding box with
\* min_longitude < max_longitude and min_latitude < max_latitude
C1_StrictBounds ==
    (Generated /\ shape = Rectangle /\ w > 0 /\ h > 0) => StrictBox(bounds)

\* a dimension of zero, or too small to move a coordinate by one grid step
Degenerate(d) == ToUnits(d) = 0

\* C2: a rectangle with a degenerate width or height is still generated,
\* and its bounding box is widened so that min < max on both axes
C2_DegenerateWidened ==
    (Generated /\ shape = Rectangle /\ (Degenerate(w) \/ Degenerate(h)))
        => (Len(geom) > 0 /\ StrictBox(bounds))

\* the vertex the circle construction owes for the i-th bearing
CircleVertex(i) ==
    <<Destination(lat, lon, BearingStep * (i - 1), r).longitude,
      Destination(lat, lon, BearingStep * (i - 1), r).latitude>>

NotNearPole == Abs(lat) <= 80 * DegUnits

\* C4: for a rectangle about a center not near the poles, the midpoint of
\* the bounding box is the center, to within one grid step on each bound,
\* and the center lies inside the bounding box
C4_MidpointIsCenter ==
    (pc = "app" /\ shape = Rectangle /\ NotNearPole)
        => /\ Abs(bounds[1] + bounds[3] - 2 * lon) <= 2
           /\ Abs(bounds[2] + bounds[4] - 2 * lat) <= 2
           /\ bounds[1] <= lon /\ lon <= bounds[3]
           /\ bounds[2] <= lat /\ lat <= bounds[4]

\* b is the extrema of the ring's vertices: it encloses them all and each
\* of its four values is the coordinate of some vertex
IsExtrema(b, ring) ==
    /\ \A i \in 1..Len(ring) :
          /\ b[1] <= ring[i][1] /\ ring[i][1] <= b[3]
          /\ b[2] <= ring[i][2] /\ ring[i][2] <= b[4]
    /\ \E i \in 1..Len(ring) : ring[i][1] = b[1]
    /\ \E i \in 1..Len(ring) : ring[i][1] = b[3]
    /\ \E i \in 1..Len(ring) : ring[i][2] = b[2]
    /\ \E i \in 1..Len(ring) : ring[i][2] = b[4]

\* C5: in every render the polygon is the one generated from the session
\* center and the shape inputs, the main bounds are its vertex extrema, and
\* the sidebar fields, the GSCloud block and the request of a download show
\* that same box
C5_BoxesFromPolygon ==
    pc = "app" =>
        /\ geom = generate_geometry(lat, lon, shape, w, h, r).geom
        /\ IsExtrema(bounds, geom)
        /\ sidebar = <<Fmt5(bounds[1]), Fmt5(bounds[3]), Fmt5(bounds[2]),
                       Fmt5(bounds[4])>>
        /\ gscloud = sidebar
        /\ event.sent # None =>
              /\ event.sent[1].west = Round5(bounds[1])
              /\ event.sent[1].south = Round5(bounds[2])
              /\ event.sent[1].east = Round5(bounds[3])
              /\ event.sent[1].north = Round5(bounds[4])

C5_Witness ==
    /\ pc = "app" /\ shape = Circle /\ r = RMax /\ event.sent # None
    /\ lat # DefaultLat

\* C6: the request carries the four bounds rounded to five decimals, and for
\* an AOI generated from positive dimensions it still has west < east and
\* south < north
C6_RoundedStrict ==
    (pc = "fetched"
        /\ IF shape = Rectangle THEN w > 0 /\ h > 0 ELSE r > 0)
        => /\ event.sent # None
           /\ event.sent[1].west = Round5(bounds[1])
           /\ event.sent[1].south = Round5(bounds[2])
           /\ event.sent[1].east = Round5(bounds[3])
           /\ event.sent[1].north = Round5(bounds[4])
           /\ event.sent[1].west < event.sent[1].east
           /\ event.sent[1].south < event.sent[1].north

\* the label the shape request alone determines
LabelOf(sh, wd, ht, rad) ==
    IF sh = Rectangle
    THEN FormatKm(wd) \o "x" \o FormatKm(ht) \o "km"
    ELSE "R" \o FormatKm(rad) \o "km"

\* C7: the label is "{width_km}x{height_km}km" for a rectangle and
\* "R{radius_km}km" for a circle, whatever the center and the history, and
\* both file names are built from it
C7_LabelAndNames ==
    pc = "app" =>
        /\ desc = LabelOf(shape, w, h, r)
        /\ roiFile = "ROI_" \o LabelOf(shape, w, h, r) \o ".geojson"
        /\ demFile # None =>
              demFile = Some("DEM_" \o LabelOf(shape, w, h, r) \o ".tif")

C7_Witness ==
    /\ pc = "app" /\ shape = Rectangle /\ w = WMin /\ h = WMax
    /\ demFile # None /\ lat # DefaultLat

\* C8: whenever the save button is offered, the raster of the session was
\* fetched for the bounding box of the AOI on display
C8_RasterOfCurrentBox ==
    (pc = "app" /\ demFile # None)
        => /\ dem_data # None
           /\ dem_data[1].of # None
           /\ dem_data[1].of[1].west = Round5(bounds[1])
           /\ dem_data[1].of[1].south = Round5(bounds[2])
           /\ dem_data[1].of[1].east = Round5(bounds[3])
           /\ dem_data[1].of[1].north = Round5(bounds[4])

\* the response is HTTP 200, its Content-Type is not HTML and nothing raised
GoodResponse(net) ==
    ~net.raises /\ net.status = 200 /\ ~net.html /\ ~net.readRaises

\* one script run, as C9 reads it
DownloadStep ==
    /\ dem_data' # dem_data => (event'.kind = "download" /\ event'.ok)
    /\ (event'.kind = "download" /\ api_key = "") =>
           (event'.sent = None /\ ~event'.ok /\ dem_data' = dem_data)
    /\ (event'.kind = "download" /\ api_key # "") =>
           /\ event'.sent # None
           /\ event'.ok <=> GoodResponse(event'.net)
           /\ event'.ok =>
                 dem_data' = Some(Content(event'.sent[1], event'.net.len))
           /\ ~event'.ok =>
                 /\ dem_data' = dem_data
                 /\ event'.d \in {"exception", "API Error", "HTTP Error"}

\* C9: dem_data changes only in a download whose fetch succeeded; with an
\* empty key no request is made; the fetch succeeds exactly on a good
\* response, and otherwise returns a message and dem_data stays as it was
C9_DownloadOutcome == [][DownloadStep]_vars

C9_Witness ==
    /\ pc = "app" /\ event.kind = "download" /\ ~event.ok
    /\ event.sent # None /\ Truthy(dem_data)

\* the triples the session center may hold: the default, or one location
CenterTriples ==
    {<<DefaultLat, DefaultLon, DefaultAddr>>}
        \cup {<<p.latitude, p.longitude, p.address>> : p \in Places}

\* one script run, as C10 reads it
SearchStep ==
    /\ (event'.kind = "search" /\ event'.geo = "found") =>
           (event'.res # None /\ <<lat', lon', addr'>> = event'.res)
    /\ (event'.kind = "search" /\ event'.geo \in {"none", "raised"}) =>
           (event'.res = None /\ UNCHANGED <<lat, lon, addr>>)
    /\ event'.kind # "search" => UNCHANGED <<lat, lon, addr>>

\* C10: lat, lon and addr are always the three values of one source (the
\* default or one geocoder result); a search that finds a location sets all
\* three to it; a search that finds nothing or raises returns None and
\* leaves all three; nothing else changes them
C10_CenterTriple ==
    /\ [](pc = "app" => <<lat, lon, addr>> \in CenterTriples)
    /\ [][SearchStep]_vars

C10_Witness ==
    /\ pc = "app" /\ event.kind = "search" /\ event.geo = "raised"
    /\ addr = "Taveuni, Fiji"

====
